---- MODULE Spec2Model ----
(***************************************************************************)
(* Model of oasislmf/exposures/manager.py: the GUL master table            *)
(* (load_gul_master_data_frame), the FM master table with its pool of      *)
(* term-column worker threads (load_fm_master_data_frame) and the file     *)
(* writers that drive them (write_gul_files, write_fm_files,               *)
(* write_oasis_files).                                                     *)
(***************************************************************************)
EXTENDS Integers, Sequences, FiniteSets, TLC

VARIABLES
    \* inputs of a run (fixed by Init)
    canexp_df,          \* canonical exposures table: sequence of records
    keys_df,            \* keys (lookup) table: sequence of records
    tiv_fields,         \* sorted TIV entries of the canonical exposures profile
    gfmt_keys,          \* keys of the grouped FM terms (raw level identifiers)
    canacc_df,          \* canonical account table: sequence of policynum values
    rules,              \* behaviour of the rule function of each term column
    include_fm,         \* the include_fm argument of write_oasis_files
    oasis_model,        \* start_oasis_files_pipeline: the model object and its resources
    oasis_files_path,   \* start_oasis_files_pipeline: the output directory argument
    source_exposures_file_path,  \* the source exposures file argument
    source_account_file_path,    \* the source account file argument
    \* the coordinating (main) thread
    pc,                 \* position of the main thread
    error,              \* the exception that ended the run, "" if none
    gul_i,              \* number of keys rows the GUL loop has processed
    item_id,            \* the item_id counter of the GUL loop
    gulm_df,            \* GUL master table
    gul_src,            \* history: the <<keys row, tiv field>> pair of each GUL row
    files,              \* names of the output files written so far
    fm_df,              \* the shared FM master table
    \* the term-column stage
    task_q,             \* queue.Queue of tasks not yet claimed
    unfinished_tasks,   \* task_q.unfinished_tasks
    result_q,           \* queue.Queue of <<column, result>>
    stopper,            \* threading.Event
    wpc,                \* position of each worker thread
    wtask,              \* the task a worker has claimed
    wbuf,               \* the values a worker's apply() has computed so far
    handler_installed,  \* signal.signal(SIGINT, handler) has run
    interrupted_at,     \* history: pc of the main thread when SIGINT arrived, "" if none
    hjoin,              \* index of the worker the handler joins next
    claimed,            \* history: how often get_nowait() returned each column's task
    applied,            \* history: the rows each column's rule function was called on
    published           \* history: how often each column name was put on result_q

vars == <<canexp_df, keys_df, tiv_fields, gfmt_keys, canacc_df, rules, include_fm,
          oasis_model, oasis_files_path, source_exposures_file_path,
          source_account_file_path,
          pc, error, gul_i, item_id, gulm_df, gul_src, files, fm_df,
          task_q, unfinished_tasks, result_q, stopper, wpc, wtask, wbuf,
          handler_installed, interrupted_at, hjoin, claimed, applied, published>>

inputs == <<canexp_df, keys_df, tiv_fields, gfmt_keys, canacc_df, rules, include_fm,
            oasis_model, oasis_files_path, source_exposures_file_path,
            source_account_file_path>>
gul_vars == <<gul_i, item_id, gulm_df, gul_src>>
hist_vars == <<claimed, applied, published>>
pool_vars == <<task_q, unfinished_tasks, result_q, stopper, wpc, wtask, wbuf,
               handler_installed, interrupted_at, hjoin, hist_vars>>

----------------------------------------------------------------------------
(* Bounds of the model *)

MaxKeys == 2        \* rows of the keys table
MaxItems == 2       \* GUL rows handed to the FM expander
MaxLevels == 2      \* FM levels handed to the FM expander
MaxAccounts == 3    \* rows of the canonical account table

RowIds == {1, 2}
TivValues == {-1, 0, 2}
CoverageTypes == {1, 2}
LevelIds == {1, 3, 4}
PolicyNums == {"P1", "P2"}

Max(a, b) == IF a >= b THEN a ELSE b

Range(s) == {s[k] : k \in 1..Len(s)}

SeqsUpTo(S, n) == UNION {[1..k -> S] : k \in 0..n}

----------------------------------------------------------------------------
(* load_gul_master_data_frame *)

\* canexp_df[canexp_df['row_id'] == keys_item['locid']]: the positions of the
\* matching canonical rows, in table order
CanexpMatches(keys_item) ==
    {k \in 1..Len(canexp_df) : canexp_df[k].row_id = keys_item.locid}

\* canexp_item.iloc[0]
CanexpItem(keys_item) ==
    canexp_df[CHOOSE k \in CanexpMatches(keys_item) :
                  \A m \in CanexpMatches(keys_item) : k <= m]

\* filter(lambda f: f['CoverageTypeID'] == keys_item['coveragetype'], tiv_fields):
\* positions in tiv_fields, scanned in ascending order
TivFieldMatches(keys_item) ==
    {f \in 1..Len(tiv_fields) : tiv_fields[f].CoverageTypeID = keys_item.coveragetype}

\* canexp_item[tiv_field['ProfileElementName'].lower()]
TivValue(canexp_item, tiv_field) == canexp_item[tiv_field.ProfileElementName]

\* mutant of TivEmits: a zero TIV is emitted too
TivEmitsZero(tiv_value) == tiv_value >= 0

\* if tiv_value > 0
TivEmits(tiv_value) == tiv_value > 0

\* item_id += 1 (only when a row is appended)
NextItemId(id) == id + 1

\* mutant of GulRow: the row takes the id of its canonical row as item_id
GulRowLocId(id, keys_item, canexp_item, tiv_value) ==
    [item_id |-> canexp_item.row_id, canloc_id |-> canexp_item.row_id, coverage_id |-> id,
     tiv |-> tiv_value, areaperil_id |-> keys_item.areaperilid,
     vulnerability_id |-> keys_item.vulnerabilityid, group_id |-> id,
     summary_id |-> 1, summaryset_id |-> 1]

\* the row appended for one emitting tiv field
GulRow(id, keys_item, canexp_item, tiv_value) ==
    [item_id |-> id, canloc_id |-> canexp_item.row_id, coverage_id |-> id,
     tiv |-> tiv_value, areaperil_id |-> keys_item.areaperilid,
     vulnerability_id |-> keys_item.vulnerabilityid, group_id |-> id,
     summary_id |-> 1, summaryset_id |-> 1]

\* mutant of ScanTivFields: item_id += 1 sits before the test of tiv_value, so
\* a skipped field uses up an id
RECURSIVE ScanTivFieldsCountingSkipped(_, _, _, _)
ScanTivFieldsCountingSkipped(i, f, canexp_item, st) ==
    IF f > Len(tiv_fields) THEN st
    ELSE IF f \notin TivFieldMatches(keys_df[i])
         THEN ScanTivFieldsCountingSkipped(i, f + 1, canexp_item, st)
    ELSE LET tiv_value == TivValue(canexp_item, tiv_fields[f])
             id == NextItemId(st.id)
         IN IF TivEmits(tiv_value)
            THEN ScanTivFieldsCountingSkipped(i, f + 1, canexp_item,
                     [id |-> id,
                      df |-> Append(st.df, GulRow(id, keys_df[i], canexp_item, tiv_value)),
                      src |-> Append(st.src, <<i, f>>)])
            ELSE ScanTivFieldsCountingSkipped(i, f + 1, canexp_item, [st EXCEPT !.id = id])

\* the inner loop "for tiv_field in tiv_field_matches" run from field f on;
\* st = [id, df, src] is the loop state
RECURSIVE ScanTivFields(_, _, _, _)
ScanTivFields(i, f, canexp_item, st) ==
    IF f > Len(tiv_fields) THEN st
    ELSE IF f \notin TivFieldMatches(keys_df[i])
         THEN ScanTivFields(i, f + 1, canexp_item, st)
    ELSE LET tiv_value == TivValue(canexp_item, tiv_fields[f]) IN
         IF TivEmits(tiv_value)
         THEN LET id == NextItemId(st.id) IN
              ScanTivFields(i, f + 1, canexp_item,
                  [id |-> id,
                   df |-> Append(st.df, GulRow(id, keys_df[i], canexp_item, tiv_value)),
                   src |-> Append(st.src, <<i, f>>)])
         ELSE ScanTivFields(i, f + 1, canexp_item, st)

\* one iteration of "for i in range(len(keys_df))" that finds its canonical row
GulLoopStep ==
    /\ pc = "gul_loop"
    /\ gul_i < Len(keys_df)
    /\ CanexpMatches(keys_df[gul_i + 1]) # {}
    /\ LET i == gul_i + 1
           st == ScanTivFields(i, 1, CanexpItem(keys_df[i]),
                               [id |-> item_id, df |-> gulm_df, src |-> gul_src])
       IN /\ gul_i' = i
          /\ item_id' = st.id
          /\ gulm_df' = st.df
          /\ gul_src' = st.src
    /\ UNCHANGED <<inputs, pc, error, files, fm_df, pool_vars>>

\* mutant of GulLoopRaise: a keys row without canonical row is skipped
GulLoopSkip ==
    /\ pc = "gul_loop"
    /\ gul_i < Len(keys_df)
    /\ CanexpMatches(keys_df[gul_i + 1]) = {}
    /\ gul_i' = gul_i + 1
    /\ UNCHANGED <<inputs, pc, error, item_id, gulm_df, gul_src, files, fm_df, pool_vars>>

\* if canexp_item.empty: raise OasisException; the local gulm_df is lost
GulLoopRaise ==
    /\ pc = "gul_loop"
    /\ gul_i < Len(keys_df)
    /\ CanexpMatches(keys_df[gul_i + 1]) = {}
    /\ pc' = "error"
    /\ error' = "OasisException"
    /\ gulm_df' = <<>>
    /\ gul_src' = <<>>
    /\ UNCHANGED <<inputs, gul_i, item_id, files, fm_df, pool_vars>>

\* return canexp_df, gulm_df
GulLoopReturn ==
    /\ pc = "gul_loop"
    /\ gul_i = Len(keys_df)
    /\ pc' = "write_items"
    /\ UNCHANGED <<inputs, error, gul_vars, files, fm_df, pool_vars>>

----------------------------------------------------------------------------
(* start_oasis_files_pipeline *)

\* a path argument or resource: not given, given but not on the filesystem,
\* or given and on the filesystem
PathStates == {"none", "absent", "present"}

NoModel ==
    [given |-> FALSE, oasis_files_path |-> "none", source_exposures_file_path |-> "none",
     source_account_file_path |-> "none"]

\* if oasis_model and not <path>: <path> = oasis_model.resources.get('<path>')
PathOrResource(argument, resource) ==
    IF oasis_model.given /\ argument = "none" THEN resource ELSE argument

\* mutant of PathCheckFails: only a path that was not given fails the check
PathCheckFailsWhenNotGiven(path) == path = "none"

\* "if not <path>: raise ... elif not os.path.exists(<path>): raise ..."
PathCheckFails(path) == path = "none" \/ path = "absent"

\* one of the three checks: raise OasisException or go on
CheckPath(at, path, next) ==
    /\ pc = at
    /\ IF PathCheckFails(path)
       THEN pc' = "error" /\ error' = "OasisException"
       ELSE pc' = next /\ error' = error
    /\ UNCHANGED <<inputs, gul_vars, files, fm_df, pool_vars>>

check_oasis_files_path ==
    CheckPath("check_oasis_files_path",
              PathOrResource(oasis_files_path, oasis_model.oasis_files_path),
              "check_source_exposures_file_path")

check_source_exposures_file_path ==
    CheckPath("check_source_exposures_file_path",
              PathOrResource(source_exposures_file_path, oasis_model.source_exposures_file_path),
              IF include_fm THEN "check_source_account_file_path" ELSE "process_default_kwargs")

\* if include_fm: ...
check_source_account_file_path ==
    CheckPath("check_source_account_file_path",
              PathOrResource(source_account_file_path, oasis_model.source_account_file_path),
              "process_default_kwargs")

\* kwargs = self._process_default_kwargs(...): file paths under oasis_files_path
process_default_kwargs ==
    /\ pc = "process_default_kwargs"
    /\ pc' = "copy_source_exposures"
    /\ UNCHANGED <<inputs, error, gul_vars, files, fm_df, pool_vars>>

\* a step of the pipeline that leaves the file name in the output directory
PipelineStep(at, name, next) ==
    /\ pc = at
    /\ files' = files \cup {name}
    /\ pc' = next
    /\ UNCHANGED <<inputs, error, gul_vars, fm_df, pool_vars>>

\* shutil.copy2(source_exposures_file_path, oasis_files_path)
copy_source_exposures ==
    PipelineStep("copy_source_exposures", "source_exposures",
                 IF include_fm THEN "copy_source_account" ELSE "transform_exposures")

\* if include_fm: shutil.copy2(source_account_file_path, oasis_files_path)
copy_source_account ==
    PipelineStep("copy_source_account", "source_account", "transform_exposures")

\* self.transform_source_to_canonical(...)
transform_exposures ==
    PipelineStep("transform_exposures", "canexp",
                 IF include_fm THEN "transform_account" ELSE "transform_canonical_to_model")

\* if include_fm: self.transform_source_to_canonical(source_type='account', ...)
transform_account ==
    PipelineStep("transform_account", "canacc", "transform_canonical_to_model")

\* self.transform_canonical_to_model(...)
transform_canonical_to_model ==
    PipelineStep("transform_canonical_to_model", "modexp", "get_keys")

\* self.get_keys(...); write_gul_files is called next
get_keys == PipelineStep("get_keys", "oasiskeys", "gul_loop")

----------------------------------------------------------------------------
(* write_gul_files *)

WriteFile(at, name, next) ==
    /\ pc = at
    /\ files' = files \cup {name}
    /\ pc' = next
    /\ UNCHANGED <<inputs, error, gul_vars, fm_df, pool_vars>>

write_items_file == WriteFile("write_items", "items", "write_coverages")

write_coverages_file == WriteFile("write_coverages", "coverages", "write_gulsummaryxref")

write_gulsummaryxref_file ==
    WriteFile("write_gulsummaryxref", "gulsummaryxref", "gul_files_written")

\* mutant of write_oasis_files_branch: write_fm_files is called whatever the flag
write_oasis_files_always_fm ==
    /\ pc = "gul_files_written"
    /\ pc' = "fm_build"
    /\ UNCHANGED <<inputs, error, gul_vars, files, fm_df, pool_vars>>

\* write_oasis_files: "if not include_fm: return gul_files", else write_fm_files
write_oasis_files_branch ==
    /\ pc = "gul_files_written"
    /\ pc' = IF include_fm THEN "fm_build" ELSE "returned"
    /\ UNCHANGED <<inputs, error, gul_vars, files, fm_df, pool_vars>>

----------------------------------------------------------------------------
(* load_fm_master_data_frame: the FM table before term derivation *)

\* fm_levels = sorted(gfmt.keys())
RECURSIVE SortedSeq(_)
SortedSeq(S) ==
    IF S = {} THEN <<>>
    ELSE LET m == CHOOSE x \in S : \A y \in S : x <= y
         IN <<m>> \o SortedSeq(S \ {m})

fm_levels == SortedSeq(gfmt_keys)

\* mutant of PresetBase: the GUL row is the outer factor, the level the inner one
PresetBaseItemMajor ==
    [k \in 1..(Len(fm_levels) * Len(gulm_df)) |->
        LET g == gulm_df[((k - 1) \div Len(fm_levels)) + 1] IN
        [level_id |-> fm_levels[((k - 1) % Len(fm_levels)) + 1],
         item_id |-> g.item_id, canloc_id |-> g.canloc_id,
         layer_id |-> 1, tiv |-> g.tiv]]

\* itertools.product(fm_levels, zip(item_id, canloc_id, [1]*len(gulm_df), tiv)):
\* the level is the outer factor, the GUL row the inner one
PresetBase ==
    [k \in 1..(Len(fm_levels) * Len(gulm_df)) |->
        LET g == gulm_df[((k - 1) % Len(gulm_df)) + 1] IN
        [level_id |-> fm_levels[((k - 1) \div Len(gulm_df)) + 1],
         item_id |-> g.item_id, canloc_id |-> g.canloc_id,
         layer_id |-> 1, tiv |-> g.tiv]]

\* layer_ids = [(i + 1) for i in range(len(canacc_df.policynum.values))]
layer_ids == [i \in 1..Len(canacc_df) |-> i]

\* preset_data[-len(gulm_df):]; a slice [-0:] is the whole list
LayeredRows(preset_data) ==
    IF Len(gulm_df) = 0 THEN preset_data
    ELSE SubSeq(preset_data, Max(1, Len(preset_data) - Len(gulm_df) + 1), Len(preset_data))

\* mutant of PresetLayers: the last element of a copied tuple is taken from
\* index 2, the layer of the base tuple, instead of index 3, its tiv
PresetLayersWrongIndex(preset_data) ==
    LET base == LayeredRows(preset_data)
        upper == Tail(layer_ids)
    IN [k \in 1..(Len(upper) * Len(base)) |->
           [base[((k - 1) % Len(base)) + 1] EXCEPT
               !.layer_id = upper[((k - 1) \div Len(base)) + 1],
               !.tiv = base[((k - 1) % Len(base)) + 1].layer_id]]

\* itertools.product(layer_ids[1:], preset_data[-len(gulm_df):]), the layer is
\* the outer factor; each tuple keeps everything but the layer
PresetLayers(preset_data) ==
    LET base == LayeredRows(preset_data)
        upper == Tail(layer_ids)
    IN [k \in 1..(Len(upper) * Len(base)) |->
           [base[((k - 1) % Len(base)) + 1] EXCEPT
               !.layer_id = upper[((k - 1) \div Len(base)) + 1]]]

\* if max(layer_ids) > 1: preset_data.extend(...)
PresetData ==
    IF Len(layer_ids) > 1 THEN PresetBase \o PresetLayers(PresetBase) ELSE PresetBase

\* mutant of LevelRank: the level identifier itself is used as level_id
LevelRankRaw(level_id) == level_id

\* fm_levels.index([fml for fml in fm_levels if fml == level_id][0]) + 1
LevelRank(level_id) ==
    CHOOSE k \in 1..Len(fm_levels) :
        /\ fm_levels[k] = level_id
        /\ \A m \in 1..Len(fm_levels) : fm_levels[m] = level_id => k <= m

fm_term_columns == <<"limit", "deductible", "deductible_type", "share", "calcrule_id">>

\* the values every row is created with
Placeholder ==
    [policytc_id |-> 0, deductible |-> 0, limit |-> 0, share |-> 0,
     deductible_type |-> "B", calcrule_id |-> 2]

\* the dict built for one element of preset_data
FmRow(p) ==
    [item_id |-> p.item_id, canloc_id |-> p.canloc_id,
     level_id |-> LevelRank(p.level_id), layer_id |-> p.layer_id, agg_id |-> 1,
     policytc_id |-> Placeholder.policytc_id, deductible |-> Placeholder.deductible,
     limit |-> Placeholder.limit, share |-> Placeholder.share,
     deductible_type |-> Placeholder.deductible_type,
     calcrule_id |-> Placeholder.calcrule_id, tiv |-> p.tiv]

\* fm_df = pd.DataFrame(columns=columns, data=data)
BuildFmDf == [k \in 1..Len(PresetData) |-> FmRow(PresetData[k])]

\* lines 636-688; max(layer_ids) of an empty account table raises ValueError
FmBuild ==
    /\ pc = "fm_build"
    /\ IF Len(layer_ids) = 0
       THEN /\ pc' = "error"
            /\ error' = "ValueError"
            /\ fm_df' = fm_df
       ELSE /\ pc' = "fm_enqueue"
            /\ error' = error
            /\ fm_df' = BuildFmDf
    /\ UNCHANGED <<inputs, gul_vars, files, pool_vars>>

----------------------------------------------------------------------------
(* The rule functions get_limit, get_deductible, get_deductible_type,        *)
(* get_share and get_calc_rule live in utils/fm.py.  Each is a function of   *)
(* the task's copies and the row index; rules[column] names its behaviour.   *)

RuleKinds == {"const", "level", "peer", "raise_first", "raise_last"}

\* func(gfmt_copy, canexp_df_copy, canacc_df_copy, fm_df_copy, i) raises
RuleRaises(kind, fm_df_copy, i) ==
    \/ kind = "raise_first" /\ i = 1
    \/ kind = "raise_last" /\ i = Len(fm_df_copy)

\* the value func(gfmt_copy, canexp_df_copy, canacc_df_copy, fm_df_copy, i) returns
RuleValue(kind, column, fm_df_copy, i) ==
    LET row == fm_df_copy[i]
        n == CASE kind = "level" -> 10 + row.level_id
               [] kind = "peer" -> 20 + row.calcrule_id + row.limit
               [] OTHER -> 10
    IN IF column = "deductible_type"
       THEN (IF n = 10 THEN "D" ELSE IF n = 11 THEN "B" ELSE "P")
       ELSE n

----------------------------------------------------------------------------
(* load_fm_master_data_frame: the term-column stage *)

Workers == 1..Len(fm_term_columns)

\* tasks = [(column, func, ..., fm_df.copy(deep=True)) for column, func in
\* columns_funcs]; for t in tasks: task_q.put(t)
Tasks ==
    [k \in 1..Len(fm_term_columns) |->
        [column |-> fm_term_columns[k], func |-> rules[fm_term_columns[k]],
         fm_df_copy |-> fm_df]]

NoTask == [column |-> "", func |-> "", fm_df_copy |-> <<>>]

FmEnqueue ==
    /\ pc = "fm_enqueue"
    /\ task_q' = Tasks
    /\ unfinished_tasks' = Len(Tasks)
    /\ pc' = "fm_install"
    /\ UNCHANGED <<inputs, hist_vars, error, gul_vars, files, fm_df, result_q, stopper, wpc,
                   wtask, wbuf, handler_installed, interrupted_at, hjoin>>

\* result_q, stopper and the workers are created and the SIGINT handler is
\* installed (lines 738-745)
FmInstallHandler ==
    /\ pc = "fm_install"
    /\ result_q' = <<>>
    /\ stopper' = FALSE
    /\ wpc' = [w \in Workers |-> "unstarted"]
    /\ handler_installed' = TRUE
    /\ pc' = "fm_start"
    /\ UNCHANGED <<inputs, hist_vars, error, gul_vars, files, fm_df, task_q, unfinished_tasks,
                   wtask, wbuf, interrupted_at, hjoin>>

\* for worker in workers: worker.start()
FmStartWorker ==
    /\ pc = "fm_start"
    /\ \E w \in Workers :
          /\ wpc[w] = "unstarted"
          /\ \A v \in Workers : v < w => wpc[v] # "unstarted"
          /\ wpc' = [wpc EXCEPT ![w] = "loop"]
          /\ pc' = IF w = Len(fm_term_columns) THEN "fm_join" ELSE "fm_start"
    /\ UNCHANGED <<inputs, hist_vars, error, gul_vars, files, fm_df, task_q, unfinished_tasks,
                   result_q, stopper, wtask, wbuf, handler_installed,
                   interrupted_at, hjoin>>

\* mutant of JoinReturns: the barrier only waits for the queue to drain
JoinReturnsWhenQueueEmpty == task_q = <<>>

\* Queue.join() returns when unfinished_tasks is zero
JoinReturns == unfinished_tasks = 0

\* mutant of FmJoin: the main thread goes on to the merge loop without waiting
FmJoinNoWait ==
    /\ pc = "fm_join"
    /\ pc' = "fm_merge"
    /\ UNCHANGED <<inputs, error, gul_vars, files, fm_df, pool_vars>>

\* task_q.join()
FmJoin ==
    /\ pc = "fm_join"
    /\ JoinReturns
    /\ pc' = "fm_merge"
    /\ UNCHANGED <<inputs, error, gul_vars, files, fm_df, pool_vars>>

\* fm_df[column] = result
SetColumn(df, column, result) ==
    [k \in 1..Len(df) |-> [df[k] EXCEPT ![column] = result[k]]]

\* mutant of FmMerge: one result is taken off result_q, the loop is an if
FmMergeOnce ==
    /\ pc = "fm_merge"
    /\ IF result_q = <<>>
       THEN UNCHANGED <<fm_df, result_q>>
       ELSE /\ fm_df' = SetColumn(fm_df, Head(result_q)[1], Head(result_q)[2])
            /\ result_q' = Tail(result_q)
    /\ pc' = "fm_policytc"
    /\ UNCHANGED <<inputs, hist_vars, error, gul_vars, files, task_q, unfinished_tasks, stopper,
                   wpc, wtask, wbuf, handler_installed, interrupted_at, hjoin>>

\* while not result_q.empty(): column, result = result_q.get_nowait();
\* fm_df[column] = result
FmMerge ==
    /\ pc = "fm_merge"
    /\ IF result_q = <<>>
       THEN /\ pc' = "fm_policytc"
            /\ UNCHANGED <<fm_df, result_q>>
       ELSE /\ fm_df' = SetColumn(fm_df, Head(result_q)[1], Head(result_q)[2])
            /\ result_q' = Tail(result_q)
            /\ pc' = pc
    /\ UNCHANGED <<inputs, hist_vars, error, gul_vars, files, task_q, unfinished_tasks, stopper,
                   wpc, wtask, wbuf, handler_installed, interrupted_at, hjoin>>

(* FMTempTableTermColumnWorker.run.  A worker's steps are cut where it      *)
(* touches what another thread reads: the loop test together with           *)
(* get_nowait() is one step, every row of apply() is one step, and the      *)
(* last row carries the put() and the task_done() that follow it.           *)

\* mutant of WorkerGet: the task is read from the queue but left on it
WorkerGetPeek(w) ==
    /\ wpc[w] = "loop"
    /\ IF stopper \/ task_q = <<>>
       THEN /\ wpc' = [wpc EXCEPT ![w] = "finished"]
            /\ UNCHANGED <<wtask, wbuf, claimed>>
       ELSE /\ wtask' = [wtask EXCEPT ![w] = Head(task_q)]
            /\ claimed' = [claimed EXCEPT ![Head(task_q).column] = @ + 1]
            /\ wbuf' = [wbuf EXCEPT ![w] = <<>>]
            /\ wpc' = [wpc EXCEPT ![w] =
                          IF Len(Head(task_q).fm_df_copy) = 0 THEN "put" ELSE "apply"]
    /\ UNCHANGED <<inputs, pc, error, gul_vars, files, fm_df, task_q, unfinished_tasks,
                   result_q, stopper, handler_installed, interrupted_at, hjoin,
                   applied, published>>

\* while not self.stopper.is_set(): ... self.task_q.get_nowait(); a set
\* stopper or queue.Empty ends the thread
WorkerGet(w) ==
    /\ wpc[w] = "loop"
    /\ IF stopper \/ task_q = <<>>
       THEN /\ wpc' = [wpc EXCEPT ![w] = "finished"]
            /\ UNCHANGED <<task_q, wtask, wbuf, claimed>>
       ELSE /\ wtask' = [wtask EXCEPT ![w] = Head(task_q)]
            /\ task_q' = Tail(task_q)
            /\ claimed' = [claimed EXCEPT ![Head(task_q).column] = @ + 1]
            /\ wbuf' = [wbuf EXCEPT ![w] = <<>>]
            /\ wpc' = [wpc EXCEPT ![w] =
                          IF Len(Head(task_q).fm_df_copy) = 0 THEN "put" ELSE "apply"]
    /\ UNCHANGED <<inputs, pc, error, gul_vars, files, fm_df, unfinished_tasks,
                   result_q, stopper, handler_installed, interrupted_at, hjoin,
                   applied, published>>

\* mutant of Publish: the result is put on result_q, task_done() is not called
PublishWithoutTaskDone(w, buf) ==
    /\ result_q' = Append(result_q, <<wtask[w].column, buf>>)
    /\ unfinished_tasks' = unfinished_tasks
    /\ wtask' = [wtask EXCEPT ![w] = NoTask]
    /\ wbuf' = [wbuf EXCEPT ![w] = <<>>]
    /\ wpc' = [wpc EXCEPT ![w] = "loop"]
    /\ published' = [published EXCEPT ![wtask[w].column] = @ + 1]

\* self.result_q.put((column, result,)); self.task_q.task_done(), for the
\* result buf of worker w, whose locals are then dead
Publish(w, buf) ==
    /\ result_q' = Append(result_q, <<wtask[w].column, buf>>)
    /\ unfinished_tasks' = unfinished_tasks - 1
    /\ wtask' = [wtask EXCEPT ![w] = NoTask]
    /\ wbuf' = [wbuf EXCEPT ![w] = <<>>]
    /\ wpc' = [wpc EXCEPT ![w] = "loop"]
    /\ published' = [published EXCEPT ![wtask[w].column] = @ + 1]

\* mutant of WorkerApply: the worker also stores each value it computes in
\* the shared table
WorkerApplyInPlace(w) ==
    /\ wpc[w] = "apply"
    /\ LET t == wtask[w]
           i == Len(wbuf[w]) + 1
       IN IF RuleRaises(t.func, t.fm_df_copy, i)
          THEN /\ wpc' = [wpc EXCEPT ![w] = "crashed"]
               /\ wbuf' = [wbuf EXCEPT ![w] = <<>>]
               /\ UNCHANGED <<wtask, result_q, unfinished_tasks, published, fm_df>>
          ELSE LET v == RuleValue(t.func, t.column, t.fm_df_copy, i)
                   buf == Append(wbuf[w], v)
               IN /\ fm_df' = [fm_df EXCEPT ![i][t.column] = v]
                  /\ IF i = Len(t.fm_df_copy)
                     THEN Publish(w, buf)
                     ELSE /\ wbuf' = [wbuf EXCEPT ![w] = buf]
                          /\ UNCHANGED <<wpc, wtask, result_q, unfinished_tasks, published>>
    /\ applied' = [applied EXCEPT ![wtask[w].column] = Append(@, Len(wbuf[w]) + 1)]
    /\ UNCHANGED <<inputs, pc, error, gul_vars, files, task_q,
                   stopper, handler_installed, interrupted_at, hjoin, claimed>>

\* one row of fm_df_copy['index'].apply(lambda i: func(...)): apply() does not
\* read the stopper; an exception of func ends the thread
WorkerApply(w) ==
    /\ wpc[w] = "apply"
    /\ LET t == wtask[w]
           i == Len(wbuf[w]) + 1
       IN IF RuleRaises(t.func, t.fm_df_copy, i)
          THEN /\ wpc' = [wpc EXCEPT ![w] = "crashed"]
               /\ wbuf' = [wbuf EXCEPT ![w] = <<>>]
               /\ UNCHANGED <<wtask, result_q, unfinished_tasks, published>>
          ELSE LET buf == Append(wbuf[w], RuleValue(t.func, t.column, t.fm_df_copy, i))
               IN IF i = Len(t.fm_df_copy)
                  THEN Publish(w, buf)
                  ELSE /\ wbuf' = [wbuf EXCEPT ![w] = buf]
                       /\ UNCHANGED <<wpc, wtask, result_q, unfinished_tasks, published>>
    /\ applied' = [applied EXCEPT ![wtask[w].column] = Append(@, Len(wbuf[w]) + 1)]
    /\ UNCHANGED <<inputs, pc, error, gul_vars, files, fm_df, task_q,
                   stopper, handler_installed, interrupted_at, hjoin, claimed>>

\* apply() over a table without rows
WorkerApplyEmpty(w) ==
    /\ wpc[w] = "put"
    /\ Publish(w, <<>>)
    /\ UNCHANGED <<inputs, pc, error, gul_vars, files, fm_df, task_q,
                   stopper, handler_installed, interrupted_at, hjoin, claimed, applied>>

(* SignalHandler.__call__, run by the main thread when SIGINT arrives *)

MainRunning == pc \notin {"error", "exited", "returned", "h_set", "h_join", "h_exit"}

\* SIGINT is delivered while the handler is installed
Interrupt ==
    /\ handler_installed
    /\ interrupted_at = ""
    /\ MainRunning
    /\ interrupted_at' = pc
    /\ pc' = "h_set"
    /\ UNCHANGED <<inputs, hist_vars, error, gul_vars, files, fm_df, task_q, unfinished_tasks,
                   result_q, stopper, wpc, wtask, wbuf, handler_installed, hjoin>>

\* self.stopper.set()
HandlerSet ==
    /\ pc = "h_set"
    /\ stopper' = TRUE
    /\ hjoin' = 1
    /\ pc' = "h_join"
    /\ UNCHANGED <<inputs, hist_vars, error, gul_vars, files, fm_df, task_q, unfinished_tasks,
                   result_q, wpc, wtask, wbuf, handler_installed, interrupted_at>>

WorkerEnded(w) == wpc[w] \in {"finished", "crashed"}

\* for worker in self.workers: worker.join(); Thread.join() of a thread that
\* was never started raises RuntimeError
HandlerJoin ==
    /\ pc = "h_join"
    /\ IF wpc[hjoin] = "unstarted"
       THEN /\ pc' = "error"
            /\ error' = "RuntimeError"
            /\ hjoin' = hjoin
       ELSE /\ WorkerEnded(hjoin)
            /\ error' = error
            /\ IF hjoin = Len(fm_term_columns)
               THEN pc' = "h_exit" /\ hjoin' = hjoin
               ELSE pc' = pc /\ hjoin' = hjoin + 1
    /\ UNCHANGED <<inputs, hist_vars, gul_vars, files, fm_df, task_q, unfinished_tasks,
                   result_q, stopper, wpc, wtask, wbuf, handler_installed,
                   interrupted_at>>

\* mutant of HandlerExit: the handler returns and the main thread resumes
HandlerReturns ==
    /\ pc = "h_exit"
    /\ pc' = interrupted_at
    /\ UNCHANGED <<inputs, error, gul_vars, files, fm_df, pool_vars>>

\* sys.exit(0): SystemExit unwinds the main thread
HandlerExit ==
    /\ pc = "h_exit"
    /\ pc' = "exited"
    /\ error' = "SystemExit"
    /\ UNCHANGED <<inputs, gul_vars, files, fm_df, pool_vars>>

----------------------------------------------------------------------------
(* policytc_id, the return of the table and write_fm_files *)

TermTuple(row) ==
    <<row.deductible, row.limit, row.share, row.deductible_type, row.calcrule_id>>

\* get_policytc_id(fm_df, i) of utils/fm.py: the rank, in first-seen order, of
\* the term tuple of row i
get_policytc_id(df, i) ==
    LET first == CHOOSE k \in 1..i :
                     /\ TermTuple(df[k]) = TermTuple(df[i])
                     /\ \A m \in 1..i : TermTuple(df[m]) = TermTuple(df[i]) => k <= m
    IN Cardinality({TermTuple(df[k]) : k \in 1..first})

\* mutant of FmPolicyTc: every row gets its own index as policytc_id
FmPolicyTcPerRow ==
    /\ pc = "fm_policytc"
    /\ fm_df' = SetColumn(fm_df, "policytc_id", [k \in 1..Len(fm_df) |-> k])
    /\ pc' = "fm_return"
    /\ UNCHANGED <<inputs, error, gul_vars, files, pool_vars>>

\* fm_df['policytc_id'] = fm_df['index'].apply(lambda i: get_policytc_id(fm_df, i))
FmPolicyTc ==
    /\ pc = "fm_policytc"
    /\ fm_df' = SetColumn(fm_df, "policytc_id",
                          [k \in 1..Len(fm_df) |-> get_policytc_id(fm_df, k)])
    /\ pc' = "fm_return"
    /\ UNCHANGED <<inputs, error, gul_vars, files, pool_vars>>

\* return fm_df
FmReturn ==
    /\ pc = "fm_return"
    /\ pc' = "write_fm_policytc"
    /\ UNCHANGED <<inputs, error, gul_vars, files, fm_df, pool_vars>>

\* write_fm_files after the table is loaded: only fm_policytc is written, the
\* other four writers are empty; then write_oasis_files returns
write_fm_policytc_file ==
    /\ pc = "write_fm_policytc"
    /\ files' = files \cup {"fm_policytc"}
    /\ pc' = "returned"
    /\ UNCHANGED <<inputs, error, gul_vars, fm_df, pool_vars>>

----------------------------------------------------------------------------
(* Specifications *)

KeysRecord(locid, coveragetype) ==
    [locid |-> locid, coveragetype |-> coveragetype,
     areaperilid |-> 100 + locid, vulnerabilityid |-> 200 + coveragetype]

TivField(name, coveragetype) ==
    [ProfileElementName |-> name, CoverageTypeID |-> coveragetype]

\* canonical exposures tables: row k has row_id k
CanexpTables ==
    UNION {[1..n -> [row_id : RowIds, buildingtiv : TivValues, contentstiv : TivValues]]
               : n \in 0..Cardinality(RowIds)}

ConstRules == [c \in Range(fm_term_columns) |-> "const"]

\* every rule function returns; the terms differ between levels
MixedRules == [ConstRules EXCEPT !["deductible"] = "level", !["share"] = "peer"]

\* the rule function of the limit column raises on the last row
FailingRules == [MixedRules EXCEPT !["limit"] = "raise_last"]

\* the state the pool variables have before load_fm_master_data_frame runs
PoolIdle ==
    /\ task_q = <<>>
    /\ unfinished_tasks = 0
    /\ result_q = <<>>
    /\ stopper = FALSE
    /\ wpc = [w \in Workers |-> "unstarted"]
    /\ wtask = [w \in Workers |-> NoTask]
    /\ wbuf = [w \in Workers |-> <<>>]
    /\ handler_installed = FALSE
    /\ interrupted_at = ""
    /\ hjoin = 1
    /\ claimed = [c \in Range(fm_term_columns) |-> 0]
    /\ applied = [c \in Range(fm_term_columns) |-> <<>>]
    /\ published = [c \in Range(fm_term_columns) |-> 0]

\* write_oasis_files and the loaders called on their own: no pipeline arguments
NoPipeline ==
    /\ oasis_model = NoModel
    /\ oasis_files_path = "present"
    /\ source_exposures_file_path = "present"
    /\ source_account_file_path = "present"

\* the state at the entry of write_oasis_files
AtEntry ==
    /\ pc = "gul_loop"
    /\ error = ""
    /\ gul_i = 0
    /\ item_id = 0
    /\ gulm_df = <<>>
    /\ gul_src = <<>>
    /\ files = {}
    /\ fm_df = <<>>
    /\ PoolIdle

\* the runs of Spec: one location with a building TIV
Run(keys, levels, accounts, rule_functions, fm) ==
    [keys_df |-> keys, gfmt_keys |-> levels, canacc_df |-> accounts,
     rules |-> rule_functions, include_fm |-> fm]

Runs ==
    {Run(<<KeysRecord(1, 1)>>, {1, 3}, <<"P1">>, MixedRules, TRUE),   \* every stage succeeds
     Run(<<KeysRecord(1, 1)>>, {1}, <<"P1">>, FailingRules, TRUE),    \* a rule function raises
     Run(<<KeysRecord(1, 2)>>, {1, 3}, <<"P1">>, MixedRules, TRUE),   \* no GUL row, empty FM table
     Run(<<KeysRecord(1, 1), KeysRecord(2, 1)>>, {1, 3}, <<"P1">>, MixedRules, TRUE), \* no canonical row 2
     Run(<<KeysRecord(1, 1)>>, {1, 3}, <<>>, MixedRules, TRUE),       \* empty account table
     Run(<<KeysRecord(1, 1)>>, {1, 3}, <<"P1">>, MixedRules, FALSE)}  \* GUL files only

Init ==
    /\ canexp_df = <<[row_id |-> 1, buildingtiv |-> 2, contentstiv |-> 0]>>
    /\ tiv_fields = <<TivField("buildingtiv", 1), TivField("contentstiv", 1)>>
    /\ \E r \in Runs :
          /\ keys_df = r.keys_df
          /\ gfmt_keys = r.gfmt_keys
          /\ canacc_df = r.canacc_df
          /\ rules = r.rules
          /\ include_fm = r.include_fm
    /\ NoPipeline
    /\ AtEntry

\* SpecGul: load_gul_master_data_frame and write_gul_files on every small
\* canonical exposures table, keys table and TIV profile
InitGul ==
    /\ canexp_df \in {t \in CanexpTables : \A k \in 1..Len(t) : t[k].row_id = k}
    /\ tiv_fields \in {<<TivField("buildingtiv", 1), TivField("contentstiv", 1)>>,
                       <<TivField("buildingtiv", 1), TivField("contentstiv", 2)>>}
    /\ keys_df \in SeqsUpTo({KeysRecord(l, c) : l \in RowIds, c \in CoverageTypes}, MaxKeys)
    /\ gfmt_keys = {1}
    /\ canacc_df = <<"P1">>
    /\ rules = ConstRules
    /\ include_fm = FALSE
    /\ NoPipeline
    /\ AtEntry

\* the GUL table of n locations with one building TIV each, 2 * k at location k
GulTableOf(n) ==
    [k \in 1..n |->
        GulRow(k, KeysRecord(k, 1), [row_id |-> k, buildingtiv |-> 2 * k, contentstiv |-> 0],
               2 * k)]

\* SpecExpand: the FM table is built from every small GUL table, level set
\* and account table; the GUL stage has run
InitExpand ==
    /\ \E n \in 0..MaxItems :
          /\ canexp_df = [k \in 1..n |-> [row_id |-> k, buildingtiv |-> 2 * k, contentstiv |-> 0]]
          /\ keys_df = [k \in 1..n |-> KeysRecord(k, 1)]
          /\ gul_i = n
          /\ item_id = n
          /\ gulm_df = GulTableOf(n)
          /\ gul_src = [k \in 1..n |-> <<k, 1>>]
    /\ tiv_fields = <<TivField("buildingtiv", 1)>>
    /\ gfmt_keys \in {S \in SUBSET LevelIds : Cardinality(S) <= MaxLevels}
    /\ canacc_df \in SeqsUpTo(PolicyNums, MaxAccounts)
    /\ rules = ConstRules
    /\ include_fm = TRUE
    /\ NoPipeline
    /\ pc = "fm_build"
    /\ error = ""
    /\ files = {"items", "coverages", "gulsummaryxref"}
    /\ fm_df = <<>>
    /\ PoolIdle

\* the table df after the merge loop: every term column holds what its rule
\* function computes from the copy of df taken before any column was merged
MergedTable(df) ==
    [k \in 1..Len(df) |->
        [f \in DOMAIN df[k] |->
            IF f \in Range(fm_term_columns)
            THEN RuleValue(rules[f], f, df, k)
            ELSE df[k][f]]]

\* SpecGroup: the policytc_id column is computed on the merged table of every
\* small GUL table, level set and account table; the workers have finished
InitGroup ==
    /\ \E n \in 0..MaxItems :
          /\ canexp_df = [k \in 1..n |-> [row_id |-> k, buildingtiv |-> 2 * k, contentstiv |-> 0]]
          /\ keys_df = [k \in 1..n |-> KeysRecord(k, 1)]
          /\ gul_i = n
          /\ item_id = n
          /\ gulm_df = GulTableOf(n)
          /\ gul_src = [k \in 1..n |-> <<k, 1>>]
    /\ tiv_fields = <<TivField("buildingtiv", 1)>>
    /\ gfmt_keys \in {S \in SUBSET LevelIds : Cardinality(S) <= MaxLevels}
    /\ canacc_df \in {[i \in 1..a |-> "P1"] : a \in 1..MaxAccounts}
    /\ rules \in {ConstRules, MixedRules}
    /\ include_fm = TRUE
    /\ NoPipeline
    /\ pc = "fm_policytc"
    /\ error = ""
    /\ files = {"items", "coverages", "gulsummaryxref"}
    /\ \E df \in {SubSeq(BuildFmDf, 1, Len(BuildFmDf))} : fm_df = MergedTable(df)
    /\ task_q = <<>>
    /\ unfinished_tasks = 0
    /\ result_q = <<>>
    /\ stopper = FALSE
    /\ wpc = [w \in Workers |-> "finished"]
    /\ wtask = [w \in Workers |-> NoTask]
    /\ wbuf = [w \in Workers |-> <<>>]
    /\ handler_installed = TRUE
    /\ interrupted_at = ""
    /\ hjoin = 1
    /\ claimed = [c \in Range(fm_term_columns) |-> 1]
    /\ applied = [c \in Range(fm_term_columns) |-> [k \in 1..Len(fm_df) |-> k]]
    /\ published = [c \in Range(fm_term_columns) |-> 1]

\* SpecPipeline: start_oasis_files_pipeline up to its call of write_gul_files,
\* for every combination of given, missing and non-existing paths, in the
\* arguments and in the resources of the model object
InitPipeline ==
    /\ canexp_df = <<[row_id |-> 1, buildingtiv |-> 2, contentstiv |-> 0]>>
    /\ tiv_fields = <<TivField("buildingtiv", 1), TivField("contentstiv", 1)>>
    /\ keys_df = <<KeysRecord(1, 1)>>
    /\ gfmt_keys = {1}
    /\ canacc_df = <<"P1">>
    /\ rules = ConstRules
    /\ include_fm \in BOOLEAN
    /\ oasis_model \in {NoModel} \cup
                        [given : {TRUE}, oasis_files_path : PathStates,
                         source_exposures_file_path : PathStates,
                         source_account_file_path : PathStates]
    /\ oasis_files_path \in PathStates
    /\ source_exposures_file_path \in PathStates
    /\ source_account_file_path \in PathStates
    /\ pc = "check_oasis_files_path"
    /\ error = ""
    /\ gul_i = 0
    /\ item_id = 0
    /\ gulm_df = <<>>
    /\ gul_src = <<>>
    /\ files = {}
    /\ fm_df = <<>>
    /\ PoolIdle

PipelineNext ==
    \/ check_oasis_files_path
    \/ check_source_exposures_file_path
    \/ check_source_account_file_path
    \/ process_default_kwargs
    \/ copy_source_exposures
    \/ copy_source_account
    \/ transform_exposures
    \/ transform_account
    \/ transform_canonical_to_model
    \/ get_keys

SpecPipeline == InitPipeline /\ [][PipelineNext]_vars

GulNext ==
    \/ GulLoopStep
    \/ GulLoopRaise
    \/ GulLoopReturn
    \/ write_items_file
    \/ write_coverages_file
    \/ write_gulsummaryxref_file

Next ==
    \/ GulNext
    \/ write_oasis_files_branch
    \/ FmBuild
    \/ FmEnqueue
    \/ FmInstallHandler
    \/ FmStartWorker
    \/ FmJoin
    \/ FmMerge
    \/ FmPolicyTc
    \/ FmReturn
    \/ write_fm_policytc_file
    \/ \E w \in Workers : WorkerGet(w)
    \/ \E w \in Workers : WorkerApply(w)
    \/ \E w \in Workers : WorkerApplyEmpty(w)
    \/ Interrupt
    \/ HandlerSet
    \/ HandlerJoin
    \/ HandlerExit

Spec == Init /\ [][Next]_vars

SpecGul == InitGul /\ [][GulNext]_vars

ExpandNext == FmBuild

SpecExpand == InitExpand /\ [][ExpandNext]_vars

GroupNext ==
    \/ FmPolicyTc
    \/ FmReturn
    \/ write_fm_policytc_file

SpecGroup == InitGroup /\ [][GroupNext]_vars

\* SpecLive: the runs of Spec without a failing rule function in which no
\* SIGINT arrives, the main thread and every worker thread being scheduled
\* again and again while they can take a step
LiveRuns ==
    {Run(<<KeysRecord(1, 1)>>, {1}, <<"P1">>, MixedRules, TRUE),      \* one FM row
     Run(<<KeysRecord(1, 2)>>, {1, 3}, <<"P1">>, MixedRules, TRUE),   \* no GUL row, empty FM table
     Run(<<KeysRecord(1, 1), KeysRecord(2, 1)>>, {1}, <<"P1">>, MixedRules, TRUE)} \* no canonical row 2

InitLive ==
    /\ canexp_df = <<[row_id |-> 1, buildingtiv |-> 2, contentstiv |-> 0]>>
    /\ tiv_fields = <<TivField("buildingtiv", 1), TivField("contentstiv", 1)>>
    /\ \E r \in LiveRuns :
          /\ keys_df = r.keys_df
          /\ gfmt_keys = r.gfmt_keys
          /\ canacc_df = r.canacc_df
          /\ rules = r.rules
          /\ include_fm = r.include_fm
    /\ NoPipeline
    /\ AtEntry

MainNext ==
    \/ GulNext
    \/ write_oasis_files_branch
    \/ FmBuild
    \/ FmEnqueue
    \/ FmInstallHandler
    \/ FmStartWorker
    \/ FmJoin
    \/ FmMerge
    \/ FmPolicyTc
    \/ FmReturn
    \/ write_fm_policytc_file

WorkerNext(w) ==
    \/ WorkerGet(w)
    \/ WorkerApply(w)
    \/ WorkerApplyEmpty(w)

LiveNext ==
    \/ MainNext
    \/ \E w \in Workers : WorkerNext(w)

FairScheduling ==
    /\ WF_vars(MainNext)
    /\ \A w \in Workers : WF_vars(WorkerNext(w))

SpecLive == InitLive /\ [][LiveNext]_vars /\ FairScheduling

----------------------------------------------------------------------------
(* Properties of the term-column stage (Spec) *)

\* column c of a table, as the sequence of its values
ColumnOf(df, c) == [k \in 1..Len(df) |-> df[k][c]]

PlaceholderColumn(df, c) == [k \in 1..Len(df) |-> Placeholder[c]]

\* what the rule function of column c returns on the table as it was built
ComputedColumn(c) ==
    [k \in 1..Len(BuildFmDf) |-> RuleValue(rules[c], c, BuildFmDf, k)]

TermColumns == Range(fm_term_columns)

AllPlaceholder == \A c \in TermColumns : ColumnOf(fm_df, c) = PlaceholderColumn(fm_df, c)

RuleRaised == \E w \in Workers : wpc[w] = "crashed"

\* positions of the main thread inside the stage, once the handler is installed
StagePcs == {"fm_start", "fm_join", "fm_merge", "fm_policytc", "fm_return"}

\* C1: while a task is not marked done the five term columns of the shared
\* table hold their placeholders, and a step changes a column only from all
\* placeholders to the whole computed column.
C1_BarrierBeforeMerge ==
    /\ [](unfinished_tasks > 0 => AllPlaceholder)
    /\ [][(pc # "fm_build" /\ fm_df' # fm_df) =>
             \A c \in TermColumns :
                 ColumnOf(fm_df', c) # ColumnOf(fm_df, c) =>
                     /\ unfinished_tasks = 0
                     /\ ColumnOf(fm_df, c) = PlaceholderColumn(fm_df, c)
                     /\ ColumnOf(fm_df', c) = ComputedColumn(c)]_vars

\* a result is published, another task is still running, nothing is merged
C1_Witness ==
    /\ pc = "fm_join"
    /\ Len(fm_df) = 2
    /\ unfinished_tasks > 0
    /\ Len(result_q) > 0
    /\ \E w \in Workers : wpc[w] = "apply" /\ Len(wbuf[w]) = 1

\* C2: when a rule function has raised, no column is merged and the main
\* thread does not stay blocked in task_q.join() once every worker has ended.
C2_FailFastAbort ==
    RuleRaised =>
        /\ AllPlaceholder
        /\ (\A w \in Workers : WorkerEnded(w)) =>
               ~(pc = "fm_join" /\ ~JoinReturns /\ interrupted_at = "")

\* C3: after a SIGINT that arrives inside the stage the main thread is in the
\* handler or has left by an exception: the stage returns no table and
\* write_fm_files writes none.
C3_InterruptAborts ==
    interrupted_at \in StagePcs =>
        /\ pc \in {"h_set", "h_join", "h_exit", "exited", "error"}
        /\ "fm_policytc" \notin files

\* the handler has exited the process while some but not all columns had
\* been computed
C3_Witness ==
    /\ interrupted_at = "fm_join"
    /\ pc = "exited"
    /\ Len(fm_df) = 2
    /\ Len(result_q) \in 1..(Len(fm_term_columns) - 1)
    /\ AllPlaceholder

\* C4: with the stopper set, a worker that has computed part of a column
\* computes no further row of it and does not publish it.
C4_WorkerStopsBetweenRows ==
    [][\A w \in Workers :
          (stopper /\ wpc[w] = "apply" /\ Len(wbuf[w]) >= 1) =>
              /\ Len(wbuf'[w]) <= Len(wbuf[w])
              /\ \A k \in 1..Len(result_q') : result_q'[k][1] # wtask[w].column]_vars

\* C5: a run with include_fm that ended by a missing join target or by a
\* cancellation of the term-column stage has written no output file.
C5_NoPartialOutput ==
    (/\ include_fm
     /\ pc \in {"error", "exited"}
     /\ error \in {"OasisException", "SystemExit"}) => files = {}

----------------------------------------------------------------------------
(* Properties of the FM table as built (SpecExpand) *)

FmBuilt == pc = "fm_enqueue"

\* L as the number of distinct policy numbers of the account table
DistinctPolicyNums == Cardinality(Range(canacc_df))

\* C6: the table has |levels| * |items| * max(1, L) rows, L being the layer
\* count of the account table (its distinct policy numbers or its rows).
C6_RowCount ==
    FmBuilt =>
        LET base == Cardinality(gfmt_keys) * Len(gulm_df)
        IN \/ Len(fm_df) = base * Max(1, DistinctPolicyNums)
           \/ Len(fm_df) = base * Max(1, Len(canacc_df))

SameBase(r, b) ==
    /\ r.item_id = b.item_id
    /\ r.canloc_id = b.canloc_id
    /\ r.level_id = b.level_id
    /\ r.agg_id = b.agg_id
    /\ r.tiv = b.tiv

\* C7: for every layer l in 2..L and every layer-1 row, at every level, the
\* table has exactly one row of layer l that repeats that row's item_id,
\* canloc_id, level_id, agg_id and tiv.
C7_EveryBaseRowReplicated ==
    FmBuilt =>
        \A l \in 2..DistinctPolicyNums :
            \A b \in 1..Len(fm_df) :
                fm_df[b].layer_id = 1 =>
                    Cardinality({k \in 1..Len(fm_df) :
                                    fm_df[k].layer_id = l /\ SameBase(fm_df[k], fm_df[b])}) = 1

\* C8: the layer_id values of a table with rows are 1..max(1, L), L being the
\* number of distinct policy numbers.
C8_LayerIds ==
    (FmBuilt /\ Len(fm_df) > 0) =>
        {fm_df[k].layer_id : k \in 1..Len(fm_df)} = 1..Max(1, DistinctPolicyNums)

----------------------------------------------------------------------------
(* Properties of the GUL table (SpecGul) *)

\* load_gul_master_data_frame has returned its table
GulLoaded == pc \notin {"gul_loop", "error"}

\* the <<keys row, TIV field>> pairs whose coverage type matches
MatchedPairs ==
    {p \in (1..Len(keys_df)) \X (1..Len(tiv_fields)) :
        tiv_fields[p[2]].CoverageTypeID = keys_df[p[1]].coveragetype}

\* the TIV of a matched pair: the field read in the canonical row of the keys row
PairTiv(p) ==
    LET row == CHOOSE r \in Range(canexp_df) : r.row_id = keys_df[p[1]].locid
    IN row[tiv_fields[p[2]].ProfileElementName]

\* C9: when every keys row has its canonical row, each matched pair with a
\* TIV > 0 yields exactly one GUL row, a pair with a TIV <= 0 yields none, and
\* the table has as many rows as there are pairs with a TIV > 0.
C9_OneItemPerPositivePair ==
    GulLoaded =>
        /\ \A p \in MatchedPairs :
              Cardinality({k \in 1..Len(gul_src) : gul_src[k] = p})
                  = (IF PairTiv(p) > 0 THEN 1 ELSE 0)
        /\ \A k \in 1..Len(gul_src) : gul_src[k] \in MatchedPairs
        /\ Len(gulm_df) = Cardinality({p \in MatchedPairs : PairTiv(p) > 0})
        /\ Len(gul_src) = Len(gulm_df)
        /\ \A k \in 1..Len(gulm_df) :
              /\ gulm_df[k].tiv = PairTiv(gul_src[k])
              /\ gulm_df[k].canloc_id = keys_df[gul_src[k][1]].locid

\* two rows are emitted, one pair with a TIV > 0 each, and a pair is skipped
C9_Witness ==
    /\ pc = "write_items"
    /\ Len(gulm_df) = 2
    /\ \E p \in MatchedPairs : PairTiv(p) <= 0
    /\ \E p \in MatchedPairs : PairTiv(p) > 0

\* C10: the item_id values of the returned table are 1..n in emission order.
C10_ItemIdsContiguous ==
    GulLoaded => \A k \in 1..Len(gulm_df) : gulm_df[k].item_id = k

\* two rows are emitted around a skipped pair
C10_Witness ==
    /\ pc = "write_items"
    /\ gul_src = <<<<1, 1>>, <<2, 1>>>>
    /\ <<1, 2>> \in MatchedPairs
    /\ PairTiv(<<1, 2>>) <= 0

\* the keys rows whose locid is the row_id of no canonical row
MissingTargets ==
    {i \in 1..Len(keys_df) : \A k \in 1..Len(canexp_df) : canexp_df[k].row_id # keys_df[i].locid}

\* C11: when a keys row, at whatever position, has no canonical row, the loop
\* never gets past it, load_gul_master_data_frame returns no table and ends
\* with the OasisException, and write_gul_files writes none of its files.
C11_MissingTargetAborts ==
    MissingTargets # {} =>
        /\ ~GulLoaded
        /\ \A i \in MissingTargets : gul_i < i
        /\ files = {}
        /\ (pc = "error" => error = "OasisException" /\ gulm_df = <<>>)

\* the second keys row has no canonical row; the first one had yielded a row
C11_Witness ==
    /\ MissingTargets = {2}
    /\ pc = "error"
    /\ gul_i = 1
    /\ item_id >= 1

\* C12: the five tasks, one per term column, are enqueued together; whatever
\* the interleaving, a task is taken off the queue at most once, a column's
\* rule function is called at most once on a row, and a column name is put
\* on result_q at most once.
C12_EachTaskClaimedOnce ==
    /\ pc = "fm_install" => [k \in DOMAIN task_q |-> task_q[k].column] = fm_term_columns
    /\ \A k, m \in DOMAIN task_q : k < m => task_q[k].column # task_q[m].column
    /\ \A c \in TermColumns :
          /\ claimed[c] <= 1
          /\ published[c] <= claimed[c]
          /\ (\E k \in DOMAIN task_q : task_q[k].column = c)
                <=> (claimed[c] = 0 /\ (handler_installed \/ pc = "fm_install"))
          /\ \A k, m \in DOMAIN applied[c] : k < m => applied[c][k] # applied[c][m]

\* all five columns were computed and published while a worker is still
\* running, and the first task was not the first to be published
C12_Witness ==
    /\ \A c \in TermColumns : claimed[c] = 1 /\ published[c] = 1 /\ applied[c] = <<1, 2>>
    /\ \E w \in Workers : wpc[w] = "loop"
    /\ result_q # <<>>
    /\ result_q[1][1] # fm_term_columns[1]

\* C13: when the policytc_id column is about to be computed, and whenever it
\* holds a computed value, every term column was published, taken off
\* result_q and merged into the shared table for every row.
C13_GroupingAfterAllMerged ==
    (pc = "fm_policytc" \/ \E k \in 1..Len(fm_df) : fm_df[k].policytc_id # Placeholder.policytc_id)
        => /\ result_q = <<>>
           /\ \A c \in TermColumns :
                 /\ published[c] = 1
                 /\ ColumnOf(fm_df, c) = ComputedColumn(c)

\* the grouping is about to read a table of two rows, no column of which
\* still holds its placeholders
C13_Witness ==
    /\ pc = "fm_policytc"
    /\ Len(fm_df) = 2
    /\ \A c \in TermColumns : ColumnOf(fm_df, c) # PlaceholderColumn(fm_df, c)

\* the table was given its policytc_id column
FmGrouped == pc \in {"fm_return", "write_fm_policytc", "returned"} /\ include_fm

\* C14: in the returned table two rows have the same policytc_id exactly
\* when their (deductible, limit, share, deductible_type, calcrule_id) agree.
C14_PolicyTcGroupsTerms ==
    FmGrouped =>
        \A i, j \in 1..Len(fm_df) :
            (TermTuple(fm_df[i]) = TermTuple(fm_df[j]))
                <=> (fm_df[i].policytc_id = fm_df[j].policytc_id)

\* a returned table with two rows of equal terms and two rows of different terms
C14_Witness ==
    /\ pc = "fm_return"
    /\ \E i, j \in 1..Len(fm_df) : i # j /\ TermTuple(fm_df[i]) = TermTuple(fm_df[j])
    /\ \E i, j \in 1..Len(fm_df) : TermTuple(fm_df[i]) # TermTuple(fm_df[j])

\* the table load_fm_master_data_frame returns, as a function of its inputs
ReturnedTable ==
    SetColumn(MergedTable(BuildFmDf), "policytc_id",
              [k \in 1..Len(BuildFmDf) |-> get_policytc_id(MergedTable(BuildFmDf), k)])

\* C15: the table load_fm_master_data_frame returns is determined by the
\* inputs: whatever order the workers claimed, computed and published the
\* term columns in, it is the same table.
C15_ReturnedTableDeterministic ==
    FmGrouped => fm_df = ReturnedTable

\* a table of two rows with different terms is returned
C15_Witness ==
    /\ pc = "write_fm_policytc"
    /\ Len(fm_df) = 2
    /\ fm_df[1].deductible # fm_df[2].deductible
    /\ fm_df[1].policytc_id # fm_df[2].policytc_id

\* C16: the level_id of every row, of the first layer or of a later one, is
\* the number of level identifiers not greater than the one the row was
\* built for, and the level_id values of the table are exactly 1..|levels|.
C16_LevelIdIsRank ==
    FmBuilt =>
        /\ \A k \in 1..Len(fm_df) :
              /\ PresetData[k].level_id \in gfmt_keys
              /\ fm_df[k].level_id =
                    Cardinality({x \in gfmt_keys : x <= PresetData[k].level_id})
        /\ Len(gulm_df) > 0 =>
              {fm_df[k].level_id : k \in 1..Len(fm_df)} = 1..Cardinality(gfmt_keys)

\* two levels whose identifiers are not their ranks, and rows of a second layer
C16_Witness ==
    /\ FmBuilt
    /\ gfmt_keys = {3, 4}
    /\ \E k \in 1..Len(fm_df) : fm_df[k].layer_id = 2 /\ fm_df[k].level_id = 2
    /\ \E k \in 1..Len(fm_df) : fm_df[k].layer_id = 1 /\ fm_df[k].level_id = 1

\* the files write_gul_files writes
GulFiles == {"items", "coverages", "gulsummaryxref"}

\* write_fm_files was entered: the main thread is in it, or it left a trace
FmStageStarted ==
    \/ pc \in {"fm_build", "fm_enqueue", "fm_install", "fm_start", "fm_join", "fm_merge",
               "fm_policytc", "fm_return", "write_fm_policytc", "h_set", "h_join", "h_exit",
               "exited"}
    \/ error \in {"ValueError", "RuntimeError", "SystemExit"}
    \/ fm_df # <<>>
    \/ "fm_policytc" \in files
    \/ handler_installed
    \/ task_q # <<>>
    \/ \E w \in Workers : wpc[w] # "unstarted"

\* C17: write_fm_files is entered only when include_fm is set and only after
\* write_gul_files has written its three files; a run that returns without
\* include_fm has written the three GUL files only and started no worker,
\* and a run that returns with include_fm has written fm_policytc as well.
C17_FmStageIffIncludeFm ==
    /\ FmStageStarted => include_fm /\ GulFiles \subseteq files
    /\ pc = "returned" =>
          files = (IF include_fm THEN GulFiles \cup {"fm_policytc"} ELSE GulFiles)
    /\ pc = "gul_files_written" => files = GulFiles /\ ~FmStageStarted

\* write_oasis_files has returned without include_fm
C17_Witness ==
    /\ pc = "returned"
    /\ ~include_fm
    /\ files = GulFiles
    /\ Len(gulm_df) = 1
    /\ unfinished_tasks = 0

\* the pair p of keys row and TIV field is scanned before the pair q
ScannedBefore(p, q) == p[1] < q[1] \/ (p[1] = q[1] /\ p[2] < q[2])

\* C18: of two rows of the returned table, the one emitted for the pair of
\* keys row and TIV field that is scanned first has the smaller item_id.
C18_ItemIdsFollowScanOrder ==
    GulLoaded =>
        \A k, m \in 1..Len(gulm_df) :
            ScannedBefore(gul_src[k], gul_src[m]) => gulm_df[k].item_id < gulm_df[m].item_id

\* two rows emitted for the two TIV fields of one keys row, whose location
\* is not the first of the canonical table
C18_Witness ==
    /\ pc = "write_items"
    /\ gul_src = <<<<1, 1>>, <<1, 2>>>>
    /\ keys_df[1].locid = 2
    /\ gulm_df[1].item_id < gulm_df[2].item_id

\* the position of the GUL row that row k of the FM table was built from
GulPosition(k) == CHOOSE g \in 1..Len(gulm_df) : gulm_df[g].item_id = fm_df[k].item_id

\* row k sorts before row m by layer, then level, then position of the GUL row
RowBefore(k, m) ==
    \/ fm_df[k].layer_id < fm_df[m].layer_id
    \/ /\ fm_df[k].layer_id = fm_df[m].layer_id
       /\ \/ fm_df[k].level_id < fm_df[m].level_id
          \/ /\ fm_df[k].level_id = fm_df[m].level_id
             /\ GulPosition(k) < GulPosition(m)

\* C19: the rows of the FM table are in layer order, within a layer in
\* level order, and within a level in the order of the GUL rows; the rows
\* of the first layer come first.
C19_RowsLayerThenLevelMajor ==
    FmBuilt => \A k, m \in 1..Len(fm_df) : k < m => RowBefore(k, m)

\* two levels, two GUL rows and three layers
C19_Witness ==
    /\ FmBuilt
    /\ Cardinality(gfmt_keys) = 2
    /\ Len(gulm_df) = 2
    /\ Len(canacc_df) = 3
    /\ fm_df[Len(fm_df)].layer_id = 3

\* C20: every row of the FM table, of the first layer or of a later one,
\* has the item_id of a row of the GUL table, that row's canloc_id as
\* canloc_id and that row's tiv, and agg_id 1.
C20_RowsCarryGulItems ==
    FmBuilt =>
        \A k \in 1..Len(fm_df) :
            /\ fm_df[k].agg_id = 1
            /\ \E g \in 1..Len(gulm_df) :
                  /\ fm_df[k].item_id = gulm_df[g].item_id
                  /\ fm_df[k].canloc_id = gulm_df[g].canloc_id
                  /\ fm_df[k].tiv = gulm_df[g].tiv

\* rows of a second layer for the second of two GUL rows
C20_Witness ==
    /\ FmBuilt
    /\ Len(gulm_df) = 2
    /\ \E k \in 1..Len(fm_df) : fm_df[k].layer_id = 2 /\ fm_df[k].item_id = 2
    /\ gulm_df[1].tiv # gulm_df[2].tiv

\* the term columns of the table df hold their placeholders
Unmerged(df) == \A c \in TermColumns : ColumnOf(df, c) = PlaceholderColumn(df, c)

\* C22: the table a task carries, on the queue or in the hands of a worker,
\* holds placeholders in its five term columns, so no call of a rule
\* function sees a value another worker computed; and no step of a worker
\* thread changes the shared table.
C22_WorkersReadSnapshots ==
    /\ [](/\ \A k \in DOMAIN task_q : Unmerged(task_q[k].fm_df_copy)
          /\ \A w \in Workers : wpc[w] \in {"apply", "put"} =>
                /\ Unmerged(wtask[w].fm_df_copy)
                /\ Len(wtask[w].fm_df_copy) = Len(fm_df))
    /\ [][(\E w \in Workers : wpc'[w] # wpc[w] \/ wbuf'[w] # wbuf[w]) => fm_df' = fm_df]_vars

\* two workers are calling rule functions on their copies after a third has
\* published its column
C22_Witness ==
    /\ \E v, w \in Workers :
          /\ v # w
          /\ wpc[v] = "apply" /\ Len(wbuf[v]) = 1
          /\ wpc[w] = "apply" /\ Len(wbuf[w]) = 0
    /\ \E c \in TermColumns : published[c] = 1
    /\ ~stopper

\* C23: after a SIGINT, delivered at whatever point once the handler is
\* installed, the main thread is in the handler until it exits the process;
\* the stopper is set before the handler waits for a worker, and when the
\* handler exits the stopper is set and every worker thread has ended.
C23_HandlerJoinsThenExits ==
    interrupted_at # "" =>
        /\ pc \in {"h_set", "h_join", "h_exit", "exited"}
        /\ pc # "h_set" => stopper
        /\ pc \in {"h_exit", "exited"} => \A w \in Workers : WorkerEnded(w)

----------------------------------------------------------------------------
(* Properties of start_oasis_files_pipeline (SpecPipeline) *)

\* the path the checks see: the argument, or the resource of the model object
\* when the argument is not given
OutputDir == PathOrResource(oasis_files_path, oasis_model.oasis_files_path)

SourceExposures ==
    PathOrResource(source_exposures_file_path, oasis_model.source_exposures_file_path)

SourceAccount ==
    PathOrResource(source_account_file_path, oasis_model.source_account_file_path)

\* a precondition of the pipeline does not hold
PreconditionFails ==
    \/ OutputDir # "present"
    \/ SourceExposures # "present"
    \/ include_fm /\ SourceAccount # "present"

CheckPcs ==
    {"check_oasis_files_path", "check_source_exposures_file_path",
     "check_source_account_file_path"}

\* C24: when the output directory, the source exposures file or, with
\* include_fm, the source account file is not given or does not exist, the
\* pipeline is in its checks or has raised OasisException, and nothing was
\* copied, transformed, looked up or handed to the GUL or FM stage.
C24_ChecksBeforeSideEffects ==
    PreconditionFails =>
        /\ pc \in CheckPcs \cup {"error"}
        /\ pc = "error" => error = "OasisException"
        /\ files = {}
        /\ gulm_df = <<>> /\ fm_df = <<>> /\ \A w \in Workers : wpc[w] = "unstarted"

\* the account file, given through the model resources, does not exist; the
\* two checks before it have passed and the third has raised
C24_Witness ==
    /\ include_fm
    /\ oasis_model.given
    /\ source_account_file_path = "none"
    /\ oasis_model.source_account_file_path = "absent"
    /\ OutputDir = "present" /\ SourceExposures = "present"
    /\ pc = "error"
    /\ error = "OasisException"
    /\ files = {}

----------------------------------------------------------------------------
(* Properties of the runs without interrupt and failing rule (SpecLive) *)

\* every task was claimed and marked done and every column name published
AllTasksDone ==
    /\ task_q = <<>>
    /\ unfinished_tasks = 0
    /\ \A c \in TermColumns : claimed[c] = 1 /\ published[c] = 1

\* load_fm_master_data_frame returns a table with the five computed columns
ReturnsComputedTable ==
    /\ pc = "fm_return"
    /\ AllTasksDone
    /\ \A c \in TermColumns : ColumnOf(fm_df, c) = ComputedColumn(c)

\* C21: once the tasks are enqueued, with no SIGINT and no failing rule
\* function and under fair scheduling, every task is eventually claimed and
\* marked done, the barrier returns and the table is returned with the five
\* computed columns, and every worker thread eventually ends.
C21_StageTerminates ==
    /\ (pc = "fm_install") ~> ReturnsComputedTable
    /\ (pc = "fm_install") ~> (AllTasksDone /\ \A w \in Workers : wpc[w] = "finished")

\* the table is returned while a worker has not yet seen the empty queue
C21_Witness ==
    /\ ReturnsComputedTable
    /\ Len(fm_df) = 1
    /\ \E w \in Workers : wpc[w] = "loop"
    /\ \E w \in Workers : wpc[w] = "finished"

====
